---- MODULE Spec2Model ----
(***************************************************************************)
(* A model of golnk's byte / section / string decoding layer               *)
(* (src/bytes.go).                                                         *)
(*                                                                         *)
(* Number representation.  TLC's integers are 32 bits wide, the program's  *)
(* are up to 64.  A uint16 is a natural number below 65536; a uint32 is a  *)
(* tuple of two 16-bit limbs and a uint64 (and Go's 64-bit int) a tuple of *)
(* four, least significant limb first.  Arithmetic on them wraps modulo    *)
(* 2^64 exactly as Go's does.  A byte is a natural number below 256, a     *)
(* []byte a sequence of bytes.                                             *)
(***************************************************************************)
EXTENDS Integers, Sequences, FiniteSets, TLC

VARIABLES
    input,   \* the argument of the pure function under study
    stream,  \* all the bytes of the outer io.Reader
    pos,     \* how many bytes of stream have been consumed
    call,    \* the last call: its name and arguments
    ret,     \* what the last call returned (or that it panicked)
    nr,      \* the scoped reader the last readSection returned
    hist     \* bookkeeping over the readSection calls made so far

vars == <<input, stream, pos, call, ret, nr, hist>>

------------------------------------------------------------------------------
(* Limb arithmetic: uint64 and int as four 16-bit limbs.                   *)

\* uint64(n) for a small non-negative n
U64Of(n) ==
    <<n % 65536, (n \div 65536) % 65536, 0, 0>>

\* uint64(u) for a uint32 u
U64OfU32(u) ==
    <<u[1], u[2], 0, 0>>

RECURSIVE SubLimbs(_, _, _, _)
SubLimbs(a, b, i, borrow) ==
    IF i > Len(a) THEN <<>>
    ELSE LET d == a[i] - b[i] - borrow
         IN  <<d % 65536>> \o SubLimbs(a, b, i + 1, IF d < 0 THEN 1 ELSE 0)

\* a - b on uint64: wraps modulo 2^64
Sub64(a, b) ==
    SubLimbs(a, b, 1, 0)

RECURSIVE AddLimbs(_, _, _, _)
AddLimbs(a, b, i, carry) ==
    IF i > Len(a) THEN <<>>
    ELSE LET s == a[i] + b[i] + carry
         IN  <<s % 65536>> \o AddLimbs(a, b, i + 1, s \div 65536)

\* a + b on 64 bits: wraps modulo 2^64
Add64(a, b) ==
    AddLimbs(a, b, 1, 0)

RECURSIVE GtLimbs(_, _, _)
GtLimbs(a, b, i) ==
    IF i = 0 THEN FALSE
    ELSE IF a[i] # b[i] THEN a[i] > b[i]
    ELSE GtLimbs(a, b, i - 1)

\* a > b on uint64
Gt64(a, b) ==
    GtLimbs(a, b, 4)

\* the sign bit of a 64-bit int
IsNegative(a) ==
    a[4] >= 32768

\* a >= b on Go's 64-bit signed int
GeInt(a, b) ==
    IF IsNegative(a) # IsNegative(b) THEN IsNegative(b)
    ELSE a = b \/ Gt64(a, b)

\* whether a 64-bit value is below 2^31, so that NatOf gives its value
FitsNat(a) ==
    a[2] < 32768 /\ a[3] = 0 /\ a[4] = 0

\* the value of a 64-bit quantity below 2^31
NatOf(a) ==
    a[1] + 65536 * a[2]

\* the number a Go int stands for, when its magnitude is below 2^31
IntValue(a) ==
    IF IsNegative(a) THEN 0 - NatOf(Sub64(<<0, 0, 0, 0>>, a)) ELSE NatOf(a)

------------------------------------------------------------------------------
(* Scalar codec.                                                           *)

\* encoding/binary's LittleEndian.Uint16 / Uint32 / Uint64 on the first bytes
LittleEndianUint16(b) ==
    b[1] + 256 * b[2]

LittleEndianUint32(b) ==
    <<b[1] + 256 * b[2], b[3] + 256 * b[4]>>

LittleEndianUint64(b) ==
    <<b[1] + 256 * b[2], b[3] + 256 * b[4], b[5] + 256 * b[6], b[7] + 256 * b[8]>>

uint16Little(b) ==
    IF Len(b) < 2 THEN [outcome |-> "panic"]
    ELSE [outcome |-> "ok", val |-> LittleEndianUint16(b)]

uint32Little(b) ==
    IF Len(b) < 4 THEN [outcome |-> "panic"]
    ELSE [outcome |-> "ok", val |-> LittleEndianUint32(b)]

uint64LittleBigEndian(b) ==
    IF Len(b) < 8 THEN [outcome |-> "panic"]
    ELSE [outcome |-> "ok",
          val |-> <<b[8] + 256 * b[7], b[6] + 256 * b[5],
                    b[4] + 256 * b[3], b[2] + 256 * b[1]>>]

uint64Little(b) ==
    IF Len(b) < 8 THEN [outcome |-> "panic"]
    ELSE [outcome |-> "ok", val |-> LittleEndianUint64(b)]

\* binary.Write(&buf, binary.LittleEndian, u): byte(u), byte(u >> 8), ...
uint16Byte(u) ==
    <<u % 256, (u \div 256) % 256>>

uint32ByteBigEndian(u) ==
    <<(u[2] \div 256) % 256, u[2] % 256, (u[1] \div 256) % 256, u[1] % 256>>

uint32Byte(u) ==
    <<u[1] % 256, (u[1] \div 256) % 256, u[2] % 256, (u[2] \div 256) % 256>>

uint64Byte(u) ==
    <<u[1] % 256, (u[1] \div 256) % 256, u[2] % 256, (u[2] \div 256) % 256,
      u[3] % 256, (u[3] \div 256) % 256, u[4] % 256, (u[4] \div 256) % 256>>

------------------------------------------------------------------------------
(* Bit/byte extraction.                                                    *)

RECURSIVE And16(_, _, _)
\* a & b on the low `bits` bits
And16(a, b, bits) ==
    IF bits = 0 THEN 0
    ELSE (IF a % 2 = 1 /\ b % 2 = 1 THEN 1 ELSE 0)
         + 2 * And16(a \div 2, b \div 2, bits - 1)

\* x << k on uint16 (k >= 16 gives 0, as in Go)
Shl16(x, k) ==
    IF k >= 16 THEN 0 ELSE (x * (2 ^ k)) % 65536

\* x >> k on uint16
Shr16(x, k) ==
    IF k >= 16 THEN 0 ELSE x \div (2 ^ k)

byteMaskuint16(b, n) ==
    IF n < 0 \/ n > 2 THEN [outcome |-> "panic"]
    ELSE LET mask == Shl16(255, n * 8)
         IN  [outcome |-> "ok", val |-> Shr16(And16(b, mask, 16), n * 8)]

------------------------------------------------------------------------------
(* Bounded slice reader.  offset, num and the returned n are Go ints.      *)

\* b[lo:hi]: a run-time panic unless 0 <= lo <= hi <= len(b)
Slice(b, lo, hi) ==
    IF IsNegative(lo) \/ IsNegative(hi) \/ Gt64(lo, hi) \/ Gt64(hi, U64Of(Len(b)))
    THEN [outcome |-> "panic"]
    ELSE [outcome |-> "ok", out |-> SubSeq(b, NatOf(lo) + 1, NatOf(hi)),
          n |-> U64Of(NatOf(hi) - NatOf(lo))]

ReadBytes(b, offset, num) ==
    IF GeInt(offset, U64Of(Len(b)))
    THEN [outcome |-> "ok", out |-> <<>>, n |-> U64Of(0)]
    ELSE IF GeInt(Add64(offset, num), U64Of(Len(b)))
    THEN Slice(b, offset, U64Of(Len(b)))
    ELSE LET s == Slice(b, offset, Add64(offset, num))
         IN  IF s.outcome = "panic" THEN s
             ELSE [outcome |-> "ok", out |-> s.out, n |-> num]

------------------------------------------------------------------------------
(* String decoders.                                                        *)

\* unicode/utf8: the continuation range of the second byte after lead p0
AcceptLo(p0) ==
    IF p0 = 224 THEN 160 ELSE IF p0 = 240 THEN 144 ELSE 128

AcceptHi(p0) ==
    IF p0 = 237 THEN 159 ELSE IF p0 = 244 THEN 143 ELSE 191

\* unicode/utf8.DecodeRune on a non-empty p: the rune alone (65533 is RuneError)
DecodeRune(p) ==
    LET p0 == p[1]
        size == IF p0 >= 194 /\ p0 <= 223 THEN 2
                ELSE IF p0 >= 224 /\ p0 <= 239 THEN 3
                ELSE IF p0 >= 240 /\ p0 <= 244 THEN 4
                ELSE 0
        cont(b) == b >= 128 /\ b <= 191
    IN  IF p0 < 128 THEN p0
        ELSE IF size = 0 \/ Len(p) < size THEN 65533
        ELSE IF p[2] < AcceptLo(p0) \/ p[2] > AcceptHi(p0) THEN 65533
        ELSE IF size = 2 THEN (p0 % 32) * 64 + (p[2] % 64)
        ELSE IF ~cont(p[3]) THEN 65533
        ELSE IF size = 3 THEN (p0 % 16) * 4096 + (p[2] % 64) * 64 + (p[3] % 64)
        ELSE IF ~cont(p[4]) THEN 65533
        ELSE (p0 % 8) * 262144 + (p[2] % 64) * 4096 + (p[3] % 64) * 64 + (p[4] % 64)

\* string(runes): one code point per rune, an invalid rune becoming U+FFFD
StringOfRunes(runes) ==
    [i \in 1..Len(runes) |->
        IF runes[i] < 0 \/ runes[i] > 1114111
           \/ (runes[i] >= 55296 /\ runes[i] <= 57343)
        THEN 65533 ELSE runes[i]]

IsTerminatorFirstByteOnly(data, bitIndex) ==
    data[bitIndex * 2 + 1] = 0

\* data[bitIndex*2] == 0x00 && data[(bitIndex*2)+1] == 0x00 (0-based in Go)
IsTerminator(data, bitIndex) ==
    data[bitIndex * 2 + 1] = 0 /\ data[bitIndex * 2 + 2] = 0

RECURSIVE UnicodeLoop(_, _, _)
UnicodeLoop(data, bitIndex, runes) ==
    IF ~(bitIndex < Len(data) \div 2) THEN runes
    ELSE IF IsTerminator(data, bitIndex) THEN runes
    ELSE UnicodeLoop(data, bitIndex + 1,
            Append(runes, DecodeRune(SubSeq(data, bitIndex * 2 + 1, Len(data)))))

readUnicodeString(data) ==
    [outcome |-> "ok", str |-> StringOfRunes(UnicodeLoop(data, 0, <<>>))]

toInt32(h, l) ==
    l * 256 + h

------------------------------------------------------------------------------
(* The streaming cursor and encoding/binary.Read over it.                  *)

\* io.ReadFull of n bytes (n a Go-sized length) from stream s at position p:
\* the bytes and the new position, or all that was left and an error.
ReadFull(s, p, n) ==
    IF FitsNat(n) /\ NatOf(n) <= Len(s) - p
    THEN [err |-> FALSE, bytes |-> SubSeq(s, p + 1, p + NatOf(n)), pos |-> p + NatOf(n)]
    ELSE [err |-> TRUE, bytes |-> SubSeq(s, p + 1, Len(s)), pos |-> Len(s)]

\* The Go runtime's limit on one allocation (2^48 bytes on 64-bit Linux);
\* make([]byte, n) panics with "makeslice: len out of range" above it.
MaxAlloc ==
    <<0, 0, 0, 1>>

\* make([]byte, n) panics.  An allocation within the limit is taken to
\* succeed; the read that follows then fails when the stream is too short.
MakePanics(n) ==
    Gt64(n, MaxAlloc)

NilReader ==
    [isNil |-> TRUE, buf |-> <<>>, off |-> 0, yielded |-> <<>>, eof |-> FALSE]

\* bytes.NewReader(b)
NewReader(b) ==
    [isNil |-> FALSE, buf |-> b, off |-> 0, yielded |-> <<>>, eof |-> FALSE]

------------------------------------------------------------------------------
(* Section framer.                                                         *)

\* the switch of readSection: read and decode the size field, re-encode it
\* as the start of data.  ok = FALSE is one of the early error returns.
ReadSize(s, p, sSize) ==
    IF sSize \notin {2, 4, 8}
    THEN [ok |-> FALSE, pos |-> p, data |-> <<>>]
    ELSE LET rd == ReadFull(s, p, U64Of(sSize))
         IN  IF rd.err THEN [ok |-> FALSE, pos |-> rd.pos, data |-> <<>>]
             ELSE IF sSize = 2
             THEN [ok |-> TRUE, pos |-> rd.pos,
                   sectionSize |-> U64Of(LittleEndianUint16(rd.bytes)),
                   data |-> uint16Byte(LittleEndianUint16(rd.bytes))]
             ELSE IF sSize = 4
             THEN [ok |-> TRUE, pos |-> rd.pos,
                   sectionSize |-> U64OfU32(LittleEndianUint32(rd.bytes)),
                   data |-> uint32Byte(LittleEndianUint32(rd.bytes))]
             ELSE [ok |-> TRUE, pos |-> rd.pos,
                   sectionSize |-> LittleEndianUint64(rd.bytes),
                   data |-> uint64Byte(LittleEndianUint64(rd.bytes))]

ComputedSizeMinusFour(sectionSize, sSize) ==
    Sub64(sectionSize, U64Of(4))

\* computedSize := sectionSize - uint64(sSize)
ComputedSize(sectionSize, sSize) ==
    Sub64(sectionSize, U64Of(sSize))

ExceedsLowLimbOnly(computedSize, maxSize) ==
    computedSize[1] > maxSize[1]

\* computedSize > maxSize
Exceeds(computedSize, maxSize) ==
    Gt64(computedSize, maxSize)

\* int(sectionSize): Go keeps the 64 bits and reads them as two's complement;
\* IntValue below gives the number they stand for.
IntOfU64(u) ==
    [i \in 1..4 |-> u[i]]

SectionError(data, p) ==
    [outcome |-> "error", data |-> data, nr |-> NilReader, size |-> U64Of(0), pos |-> p]

readSection(s, p, sSize, maxSize) ==
    LET hd == ReadSize(s, p, sSize)
    IN  IF ~hd.ok THEN SectionError(hd.data, hd.pos)
        ELSE LET computedSize == ComputedSize(hd.sectionSize, sSize)
             IN  IF Exceeds(computedSize, maxSize) THEN SectionError(hd.data, hd.pos)
                 ELSE IF MakePanics(computedSize)
                 THEN [outcome |-> "panic", pos |-> hd.pos]
                 ELSE LET rd == ReadFull(s, hd.pos, computedSize)
                      IN  IF rd.err THEN SectionError(hd.data, rd.pos)
                          ELSE [outcome |-> "ok",
                                data |-> hd.data \o rd.bytes,
                                nr |-> NewReader(rd.bytes),
                                size |-> IntOfU64(hd.sectionSize),
                                pos |-> rd.pos]

------------------------------------------------------------------------------
(* Length-prefixed string field.                                           *)

RECURSIVE StringDataLoop(_, _, _, _)
StringDataLoop(b, size, bitIndex, runes) ==
    IF ~(bitIndex < size \div 2) THEN runes
    ELSE StringDataLoop(b, size, bitIndex + 1,
            Append(runes, IF bitIndex * 2 + 1 < Len(b)
                          THEN toInt32(b[bitIndex * 2 + 1], b[bitIndex * 2 + 2])
                          ELSE toInt32(b[bitIndex * 2 + 1], 0)))

\* size = size * 2 on uint16
DoubleSize(size) ==
    (size * 2) % 65536

readStringData(s, p, isUnicode) ==
    LET hd == ReadFull(s, p, U64Of(2))
    IN  IF hd.err THEN [outcome |-> "error", str |-> <<>>, pos |-> hd.pos]
        ELSE LET size16 == LittleEndianUint16(hd.bytes)
                 size == IF isUnicode THEN DoubleSize(size16) ELSE size16
                 rd == ReadFull(s, hd.pos, U64Of(size))
             IN  IF rd.err THEN [outcome |-> "error", str |-> <<>>, pos |-> rd.pos]
                 ELSE IF isUnicode
                 THEN [outcome |-> "ok", pos |-> rd.pos,
                       str |-> StringOfRunes(StringDataLoop(rd.bytes, size, 0, <<>>))]
                 ELSE [outcome |-> "ok", pos |-> rd.pos, str |-> rd.bytes]

------------------------------------------------------------------------------
(* Bounds and input sets.                                                  *)

\* longest run of bytes following the first size field of a section stream
MaxTail == 3

\* longest run of bytes following the length field of a string stream
MaxStrTail == 6

\* longest buffer handed to ReadBytes
MaxBuf == 3

\* longest buffer handed to readUnicodeString
MaxData == 5

SeqsUpTo(S, n) ==
    UNION {[1..k -> S] : k \in 0..n}

\* what a section stream starts with: size fields of each width, whole or cut
Heads ==
    { <<>>, <<7>>,
      <<0, 0>>, <<1, 0>>, <<2, 0>>, <<3, 0>>, <<255, 255>>,
      <<2, 0, 5, 0, 0, 0>>,
      <<3, 0, 0, 0>>, <<4, 0, 0, 0>>, <<6, 0, 0, 0>>, <<4, 0, 1, 0>>,
      <<255, 255, 255, 255>>,
      <<7, 0, 0, 0, 0, 0, 0, 0>>, <<8, 0, 0, 0, 0, 0, 0, 0>>,
      <<9, 0, 0, 0, 0, 0, 0, 0>>, <<9, 0, 0, 0, 0, 0, 1, 0>>,
      <<9, 0, 0, 0, 0, 0, 0, 128>>,
      <<255, 255, 255, 255, 255, 255, 255, 255>> }

SectionStreams ==
    { h \o t : h \in Heads, t \in SeqsUpTo({0, 2, 4}, MaxTail) }

\* the widths callers pass (3 stands for every invalid width)
SSizes ==
    {2, 3, 4, 8}

\* the ceilings callers pass: 0, 2, 2^64 - 9 and 2^64 - 1
MaxSizes ==
    { U64Of(0), U64Of(2),
      <<65527, 65535, 65535, 65535>>, <<65535, 65535, 65535, 65535>> }

StrHeads ==
    { <<>>, <<1>>, <<0, 0>>, <<1, 0>>, <<2, 0>>, <<3, 0>>,
      <<255, 127>>, <<0, 128>>, <<1, 128>>, <<255, 255>> }

StringStreams ==
    { h \o t : h \in StrHeads, t \in SeqsUpTo({0, 65, 216}, MaxStrTail) }

NoCall == [name |-> "none"]
NoRet == [outcome |-> "none"]
NoInput == [kind |-> "none"]
NoHist == [raw |-> <<>>, sum |-> 0, allOk |-> TRUE, calls |-> 0, widths |-> {}]

------------------------------------------------------------------------------
(* The section framer over one stream.                                     *)

Init ==
    /\ input = NoInput
    /\ stream \in SectionStreams
    /\ pos = 0
    /\ call = NoCall
    /\ ret = NoRet
    /\ nr = NilReader
    /\ hist = NoHist

\* One call of readSection on the stream, where the last call left it.  The
\* caller peels sections off until one fails: an error ends its parse of the
\* stream, a panic ends the program.
ReadSectionStep ==
    /\ hist.allOk
    /\ \E sSize \in SSizes, maxSize \in MaxSizes :
         LET r == readSection(stream, pos, sSize, maxSize)
         IN  /\ call' = [name |-> "readSection", sSize |-> sSize,
                         maxSize |-> maxSize, pos |-> pos]
             /\ ret' = r
             /\ pos' = r.pos
             /\ nr' = IF r.outcome = "ok" THEN r.nr ELSE NilReader
             /\ hist' = IF r.outcome = "ok"
                        THEN [raw |-> hist.raw \o r.data,
                              sum |-> hist.sum + IntValue(r.size),
                              allOk |-> hist.allOk,
                              calls |-> hist.calls + 1,
                              widths |-> hist.widths \cup {sSize}]
                        ELSE [hist EXCEPT !.allOk = FALSE]
    /\ UNCHANGED <<input, stream>>

\* the caller reads up to k bytes from the scoped reader (bytes.Reader.Read)
ReadScopedStep ==
    /\ ~nr.isNil
    /\ ~nr.eof
    /\ \E k \in 1..2 :
         IF nr.off >= Len(nr.buf)
         THEN nr' = [nr EXCEPT !.eof = TRUE]
         ELSE LET n == IF k < Len(nr.buf) - nr.off THEN k ELSE Len(nr.buf) - nr.off
              IN  nr' = [nr EXCEPT !.off = nr.off + n,
                                   !.yielded = nr.yielded \o
                                       SubSeq(nr.buf, nr.off + 1, nr.off + n)]
    /\ UNCHANGED <<input, stream, pos, call, ret, hist>>

Next ==
    \/ ReadSectionStep
    \/ ReadScopedStep

Spec == Init /\ [][Next]_vars

------------------------------------------------------------------------------
(* The length-prefixed string reader over one stream.                      *)

InitString ==
    /\ input = NoInput
    /\ stream \in StringStreams
    /\ pos = 0
    /\ call = NoCall
    /\ ret = NoRet
    /\ nr = NilReader
    /\ hist = NoHist

ReadStringDataStep ==
    /\ \E isUnicode \in BOOLEAN :
         LET r == readStringData(stream, pos, isUnicode)
         IN  /\ call' = [name |-> "readStringData", isUnicode |-> isUnicode, pos |-> pos]
             /\ ret' = r
             /\ pos' = r.pos
    /\ UNCHANGED <<input, stream, nr, hist>>

NextString ==
    ReadStringDataStep

SpecString == InitString /\ [][NextString]_vars

------------------------------------------------------------------------------
(* The pure functions, each applied to an input drawn at the start.        *)

\* 16-bit sample values: every mix of these four bytes
SampleBytes ==
    {0, 1, 18, 255}

SampleLimbs ==
    { h * 256 + l : h \in SampleBytes, l \in SampleBytes }

\* the largest Go int, 2^63 - 1
MaxInt ==
    <<65535, 65535, 65535, 32767>>

CodecInputs ==
    { [kind |-> "codec", v |-> v] :
        v \in [1..1 -> SampleLimbs] \cup [1..2 -> SampleLimbs]
              \cup [1..4 -> {0, 1, 4660, 65535}] }

MaskInputs ==
    { [kind |-> "mask", b |-> b, n |-> n] : b \in SampleLimbs, n \in -1..3 }

BytesInputs ==
    { [kind |-> "bytes", b |-> b, offset |-> o, num |-> c] :
        b \in SeqsUpTo({7, 9}, MaxBuf),
        o \in {U64Of(k) : k \in 0..(MaxBuf + 1)},
        c \in {U64Of(k) : k \in 0..(MaxBuf + 1)} \cup {MaxInt} }

UnicodeInputs ==
    { [kind |-> "unicode", data |-> d] : d \in SeqsUpTo({0, 65, 195, 169}, MaxData) }

InitPure ==
    /\ input \in CodecInputs \cup MaskInputs \cup BytesInputs \cup UnicodeInputs
    /\ stream = <<>>
    /\ pos = 0
    /\ call = NoCall
    /\ ret = NoRet
    /\ nr = NilReader
    /\ hist = NoHist

\* uint16Byte / uint32Byte / uint64Byte, by the width of v
Encode(v) ==
    IF Len(v) = 1 THEN uint16Byte(v[1])
    ELSE IF Len(v) = 2 THEN uint32Byte(v)
    ELSE uint64Byte(v)

\* uint16Little / uint32Little / uint64Little of b, by the width asked for;
\* the value comes back as limbs
Decode(b, limbs) ==
    IF limbs = 1
    THEN LET r == uint16Little(b)
         IN  IF r.outcome = "ok" THEN [outcome |-> "ok", val |-> <<r.val>>] ELSE r
    ELSE IF limbs = 2 THEN uint32Little(b)
    ELSE uint64Little(b)

EncodeStep ==
    /\ input.kind = "codec"
    /\ call.name = "none"
    /\ call' = [name |-> "encode"]
    /\ ret' = [outcome |-> "ok", bytes |-> Encode(input.v)]
    /\ UNCHANGED <<input, stream, pos, nr, hist>>

\* decode the first k bytes of the encoding (all of them, or too few)
DecodeStep ==
    /\ input.kind = "codec"
    /\ call.name = "encode"
    /\ \E k \in 0..Len(ret.bytes) :
         /\ call' = [name |-> "decode", given |-> k]
         /\ ret' = [outcome |-> "ok", bytes |-> ret.bytes,
                    dec |-> Decode(SubSeq(ret.bytes, 1, k), Len(input.v))]
    /\ UNCHANGED <<input, stream, pos, nr, hist>>

MaskStep ==
    /\ input.kind = "mask"
    /\ call.name = "none"
    /\ call' = [name |-> "byteMaskuint16"]
    /\ ret' = byteMaskuint16(input.b, input.n)
    /\ UNCHANGED <<input, stream, pos, nr, hist>>

ReadBytesStep ==
    /\ input.kind = "bytes"
    /\ call.name = "none"
    /\ call' = [name |-> "ReadBytes"]
    /\ ret' = ReadBytes(input.b, input.offset, input.num)
    /\ UNCHANGED <<input, stream, pos, nr, hist>>

ReadUnicodeStringStep ==
    /\ input.kind = "unicode"
    /\ call.name = "none"
    /\ call' = [name |-> "readUnicodeString"]
    /\ ret' = readUnicodeString(input.data)
    /\ UNCHANGED <<input, stream, pos, nr, hist>>

NextPure ==
    \/ EncodeStep
    \/ DecodeStep
    \/ MaskStep
    \/ ReadBytesStep
    \/ ReadUnicodeStringStep

SpecPure == InitPure /\ [][NextPure]_vars

------------------------------------------------------------------------------
(* What the claims speak of, read off the stream itself.                   *)

\* the last call was readSection with a width of 2, 4 or 8
SectionCall ==
    call.name = "readSection" /\ call.sSize \in {2, 4, 8}

\* the bytes the stream held when the last call began
Avail ==
    Len(stream) - call.pos

\* the stream held a whole size field
HasField ==
    Avail >= call.sSize

\* the size field's bytes
Field ==
    SubSeq(stream, call.pos + 1, call.pos + call.sSize)

\* the declared size is below 2^24: only the three low bytes are set
DeclaredSmall ==
    \A i \in 4..call.sSize : Field[i] = 0

\* the declared size, when small (a 2-byte field has no third byte)
Declared ==
    Field[1] + 256 * Field[2] + (IF call.sSize > 2 THEN 65536 * Field[3] ELSE 0)

\* n <= m for a small natural n and a uint64 m
NatLeU64(n, m) ==
    m[4] # 0 \/ m[3] # 0 \/ m[2] >= 32768 \/ n <= m[1] + 65536 * m[2]

\* the payload bytes of a well-formed section
Payload ==
    SubSeq(stream, call.pos + call.sSize + 1, call.pos + Declared)

\* C1's case: a whole, well-formed section under the ceiling
WellFormed ==
    /\ SectionCall
    /\ HasField
    /\ DeclaredSmall
    /\ call.sSize <= Declared
    /\ NatLeU64(Declared - call.sSize, call.maxSize)
    /\ Declared <= Avail

\* C1: a well-formed section within the ceiling and the stream is returned
\* whole: raw bytes = the size field followed by the payload (Declared bytes
\* in all), a scoped reader over exactly the payload that ends after it, and
\* size = Declared.
C1_WellFormedSection ==
    WellFormed =>
        /\ ret.outcome = "ok"
        /\ Len(ret.data) = Declared
        /\ ret.data = SubSeq(stream, call.pos + 1, call.pos + Declared)
        /\ ~nr.isNil
        /\ nr.buf = Payload
        /\ nr.yielded = SubSeq(Payload, 1, nr.off)
        /\ (nr.eof => nr.yielded = Payload)
        /\ IntValue(ret.size) = Declared

\* a 4-byte-prefixed section of declared size 6 has been returned and its
\* scoped reader read to the end
C1_Witness ==
    /\ WellFormed
    /\ call.sSize = 4
    /\ Declared = 6
    /\ ret.outcome = "ok"
    /\ nr.eof

\* C2's case: the size field declares less than its own width
Underflow ==
    SectionCall /\ HasField /\ DeclaredSmall /\ Declared < call.sSize

\* C2: a declared size below the prefix width is a decode error, whatever
\* the ceiling: never a success, never a panic.
C2_UnderflowIsError ==
    Underflow => ret.outcome = "error"

\* the payload size as the code computes it (modulo 2^64) exceeds the ceiling
OverCeiling ==
    /\ SectionCall
    /\ HasField
    /\ Gt64(Sub64(IF call.sSize = 2 THEN U64Of(LittleEndianUint16(Field))
                  ELSE IF call.sSize = 4 THEN U64OfU32(LittleEndianUint32(Field))
                  ELSE LittleEndianUint64(Field),
                  U64Of(call.sSize)),
            call.maxSize)

\* C3: when the computed payload size exceeds the ceiling, readSection
\* returns an error having consumed the size field and nothing more.
C3_OverCeilingConsumesPrefixOnly ==
    OverCeiling =>
        /\ ret.outcome = "error"
        /\ pos = call.pos + call.sSize

\* a section over the ceiling was refused with payload bytes left unread
C3_Witness ==
    /\ OverCeiling
    /\ DeclaredSmall
    /\ Declared > call.sSize
    /\ Len(stream) > pos
    /\ ret.outcome = "error"

\* C4's case: the stream ends before the size field or before the payload
Truncated ==
    /\ SectionCall
    /\ \/ ~HasField
       \/ /\ HasField
          /\ \/ ~DeclaredSmall
             \/ (Declared >= call.sSize /\ Avail < Declared)

\* C4: a stream too short for the section gives a decode error with a nil
\* reader and size 0, and no success ever carries a short or padded payload.
C4_TruncatedIsError ==
    /\ Truncated =>
        /\ ret.outcome = "error"
        /\ nr.isNil
        /\ ret.size = U64Of(0)
    /\ (SectionCall /\ ret.outcome = "ok") =>
        /\ HasField /\ DeclaredSmall /\ Declared >= call.sSize
        /\ nr.buf = Payload
        /\ Len(nr.buf) = Declared - call.sSize

\* C10: while every readSection call has succeeded, the bytes consumed are
\* the sum of the sizes returned and the raw slices, end to end, are the
\* consumed prefix of the stream; the last call began where the one before
\* ended, and reading the scoped reader leaves the outer position alone.
C10_SectionsTileTheStream ==
    hist.allOk =>
        /\ pos = hist.sum
        /\ hist.raw = SubSeq(stream, 1, pos)
        /\ (call.name = "readSection" => call.pos + IntValue(ret.size) = pos)

\* two sections of different widths were read and the second one's scoped
\* reader has been read from
C10_Witness ==
    /\ hist.allOk
    /\ hist.calls >= 2
    /\ Cardinality(hist.widths) >= 2
    /\ nr.off > 0

------------------------------------------------------------------------------
(* The length-prefixed string reader.                                      *)

\* the 16-bit length the stream declared to the last readStringData call
DeclaredLength ==
    stream[call.pos + 1] + 256 * stream[call.pos + 2]

\* C5: with the double-byte flag, a declared length L makes readStringData
\* consume the 2-byte length field and exactly 2*L content bytes and return
\* L code points; with fewer than 2*L bytes left it returns a decode error.
C5_DoubleByteReadsTwiceTheLength ==
    (call.name = "readStringData" /\ call.isUnicode /\ Avail >= 2) =>
        IF Avail - 2 >= 2 * DeclaredLength
        THEN /\ ret.outcome = "ok"
             /\ pos = call.pos + 2 + 2 * DeclaredLength
             /\ Len(ret.str) = DeclaredLength
        ELSE ret.outcome = "error"

------------------------------------------------------------------------------
(* The pure functions.                                                     *)

\* C6: for offset >= 0 and count >= 0, ReadBytes returns nothing when the
\* offset is at or past the end, and otherwise the n = min(count, len - offset)
\* bytes from offset on; the slice returned always has n bytes, all of b.
C6_ReadBytesClamps ==
    (input.kind = "bytes" /\ call.name = "ReadBytes") =>
        LET len == Len(input.b)
            off == NatOf(input.offset)
            n == IF FitsNat(input.num) /\ NatOf(input.num) <= len - off
                 THEN NatOf(input.num) ELSE len - off
        IN  /\ ret.outcome = "ok"
            /\ IF off >= len
               THEN ret.n = U64Of(0) /\ ret.out = <<>>
               ELSE /\ ret.n = U64Of(n)
                    /\ ret.out = SubSeq(input.b, off + 1, off + n)
            /\ U64Of(Len(ret.out)) = ret.n

\* C7: byteMaskuint16 gives the low byte for index 0, the high byte for
\* index 1, and panics for every other index.
C7_ByteMaskPanicsOutsideZeroOne ==
    (input.kind = "mask" /\ call.name = "byteMaskuint16") =>
        IF input.n = 0 THEN ret = [outcome |-> "ok", val |-> input.b % 256]
        ELSE IF input.n = 1 THEN ret = [outcome |-> "ok", val |-> input.b \div 256]
        ELSE ret.outcome = "panic"

\* bits 8i .. 8i+7 of a value held as 16-bit limbs
BitsOf(v, i) ==
    (v[(i \div 2) + 1] \div (IF i % 2 = 0 THEN 1 ELSE 256)) % 256

\* C8: the encoding of a 16/32/64-bit value has 2/4/8 bytes, byte i holding
\* bits 8i..8i+7, and decoding the whole encoding gives the value back.
C8_CodecRoundTrip ==
    (input.kind = "codec" /\ call.name \in {"encode", "decode"}) =>
        /\ Len(ret.bytes) = 2 * Len(input.v)
        /\ \A i \in 0..(Len(ret.bytes) - 1) : ret.bytes[i + 1] = BitsOf(input.v, i)
        /\ (call.name = "decode" /\ call.given = Len(ret.bytes)) =>
               ret.dec = [outcome |-> "ok", val |-> input.v]

\* a 64-bit value with distinct bytes has been encoded and decoded
C8_Witness ==
    /\ input.kind = "codec"
    /\ call.name = "decode"
    /\ input.v = <<4660, 65535, 1, 0>>
    /\ call.given = 8
    /\ ret.dec.outcome = "ok"

\* the pair-aligned zero pairs of a buffer, by 0-based pair index
ZeroPairs(data) ==
    { k \in 0..((Len(data) \div 2) - 1) : data[2 * k + 1] = 0 /\ data[2 * k + 2] = 0 }

\* the complete pairs that precede the first zero pair, or all of them
PairsBeforeTerminator(data) ==
    IF ZeroPairs(data) = {} THEN Len(data) \div 2
    ELSE CHOOSE k \in ZeroPairs(data) : \A j \in ZeroPairs(data) : k <= j

\* C9: readUnicodeString never fails and returns one code point for each
\* complete pair before the first pair-aligned zero pair (for each complete
\* pair when there is none); an odd last byte and all from the terminator on
\* add nothing.
C9_OneCodePointPerPair ==
    (input.kind = "unicode" /\ call.name = "readUnicodeString") =>
        /\ ret.outcome = "ok"
        /\ Len(ret.str) = PairsBeforeTerminator(input.data)

\* an odd-length buffer with a pair starting with a zero byte, then a
\* terminator pair, then more bytes, has been decoded
C9_Witness ==
    /\ input.kind = "unicode"
    /\ call.name = "readUnicodeString"
    /\ input.data = <<0, 65, 0, 0, 65>>
    /\ ret.outcome = "ok"

====
